---- MODULE Spec2Model ----
(***************************************************************************)
(* DCABot (src/buy.py): one run of the dollar-cost-averaging bot.          *)
(*                                                                         *)
(* Money (balances, amounts, prices) is counted in thousandths of a euro,  *)
(* so that the two-decimal formatting of the messages and of the trade log *)
(* is a real conversion.  A volume is the quotient amount / price, kept as *)
(* the pair [num, den] and turned into 1e-8 units only where the code      *)
(* formats it with eight decimals.  A trading pair is a sequence of        *)
(* one-character strings.                                                  *)
(***************************************************************************)
EXTENDS Integers, Sequences, FiniteSets, TLC

(* ------------------------------ bounds --------------------------------- *)
\* longest configured coin list
MaxCoins == 2
\* log_trade calls in a row on the same two files
MaxRecords == 3

(* --------------------------- input domains ----------------------------- *)
XXBTZEUR == <<"X", "X", "B", "T", "Z", "E", "U", "R">>
ADAEUR == <<"A", "D", "A", "E", "U", "R">>
PairNames == <<XXBTZEUR, ADAEUR>>
\* the k-th configured coin trades PairAt(k)
PairAt(k) == PairNames[((k - 1) % Len(PairNames)) + 1]
\* configured 'amount' values: 50.00 and 60.00 EUR
Amounts == {50000, 60000}
\* 'ZEUR' of the Balance answer: 50.00 and 100.00 EUR ("absent" is the third case)
Balances == {50000, 100000}
\* the last-trade price of the market of a pair: 7.004 EUR and 10.00 EUR
MarketPrice(pair) == IF pair = XXBTZEUR THEN 7004 ELSE 10000
\* the transaction id the exchange gives its k-th order
TxidNames == <<"TX1", "TX2", "TX3">>
Txid(k) == TxidNames[((k - 1) % Len(TxidNames)) + 1]
\* what the wall clock (time.time(), in ms) can read at a private call: two
\* readings give calls in one millisecond, forward time and a clock set back
ClockReadings == {1, 2}
EmailFields == {"smtp_server", "smtp_port", "from_email", "password", "to_email"}
\* which e-mail settings are present: all, all but one, none
EmailConfigs == {EmailFields, {}} \cup {EmailFields \ {f} : f \in EmailFields}
\* the notification settings: [telegram_token, telegram_chat_id, email_cfg]
AllNotifierConfigs ==
    [telegram_token : BOOLEAN, telegram_chat_id : BOOLEAN, email_cfg : EmailConfigs]
\* e-mail alone fully configured, or nothing configured at all
PlainNotifierConfigs ==
    {c \in AllNotifierConfigs :
        /\ ~c.telegram_token /\ ~c.telegram_chat_id
        /\ c.email_cfg \in {EmailFields, {}}}
CoinListsUpTo(max) ==
    UNION {{[k \in 1..n |-> [pair |-> PairAt(k), amount |-> a[k]]] : a \in [1..n -> Amounts]}
           : n \in 0..max}

VARIABLES
    coins,             \* config['coins']
    telegram_token,    \* NotificationManager.telegram_token is set
    telegram_chat_id,  \* NotificationManager.telegram_chat_id is set
    email_cfg,         \* the e-mail settings that are set
    pc,                \* position of DCABot.run
    idx,               \* number of coins the loop of run has processed
    eur_balance,       \* run's local eur_balance
    fetched,           \* the balance the Balance call answered
    nonces,            \* nonces of the latest two private calls, oldest first
    balance_calls,     \* Balance requests issued
    price_calls,       \* Ticker requests issued
    order_calls,       \* AddOrder requests issued
    accepted,          \* orders the exchange answered without error
    csv_file,          \* rows of csv_path
    koinly_file,       \* rows of koinly_csv_path
    outcome,           \* per processed coin: Skipped, Purchased or Failed
    last,              \* what the latest _process_coin call did
    balance_answer,    \* how the Balance request ended: none, raised, error, ok
    answers,           \* what the exchange answered the latest _process_coin call
    wire,              \* the latest private request, as signed and as sent
    recorded,          \* the log_trade calls so far: the record and how the write went
    notify_log         \* the notify calls of the latest step of run

vars == <<coins, telegram_token, telegram_chat_id, email_cfg, pc, idx, eur_balance,
          fetched, nonces, balance_calls, price_calls, order_calls,
          accepted, csv_file, koinly_file, outcome, last, balance_answer, answers,
          wire, recorded, notify_log>>

config == <<coins, telegram_token, telegram_chat_id, email_cfg>>

(* ------------------------------ formatting ----------------------------- *)
\* f"{x:.2f}" of an amount of thousandths: the nearest hundredth, in hundredths
Fmt2(x) == (x + 5) \div 10

RECURSIVE FracDigits(_, _, _, _)
\* long division: acc followed by the first k decimals of r / den, and the remainder
FracDigits(r, den, k, acc) ==
    IF k = 0 THEN [digits |-> acc, rem |-> r]
    ELSE FracDigits((r * 10) % den, den, k - 1, acc * 10 + ((r * 10) \div den))

\* f"{volume:.8f}" of volume = num / den: the nearest multiple of 1e-8, in 1e-8 units
Fmt8(volume) ==
    LET f == FracDigits(volume.num % volume.den, volume.den, 8,
                        volume.num \div volume.den)
    IN  f.digits + (IF 2 * f.rem >= volume.den THEN 1 ELSE 0)

(* ----------------------------- TradeLogger ----------------------------- *)
\* A row carries every column but the timestamp (datetime.utcnow()).
quote_currencies == <<<<"E", "U", "R">>, <<"U", "S", "D">>, <<"U", "S", "D", "T">>,
                      <<"B", "T", "C">>>>

endswith(s, suffix) ==
    /\ Len(suffix) <= Len(s)
    /\ SubSeq(s, Len(s) - Len(suffix) + 1, Len(s)) = suffix

convert_kraken_pair_to_symbol(pair) ==
    LET hits == {k \in 1..Len(quote_currencies) : endswith(pair, quote_currencies[k])}
        first == CHOOSE k \in hits : \A j \in hits : k <= j
        base == IF hits = {} THEN pair
                ELSE SubSeq(pair, 1, Len(pair) - Len(quote_currencies[first]))
    IN  IF base = <<"X", "B", "T">> THEN <<"B", "T", "C">>
        ELSE IF Len(base) > 0 /\ base[1] \in {"X", "Z"} THEN Tail(base)
        ELSE base

csv_header == [kind |-> "header",
               fieldnames |-> <<"timestamp", "pair", "price_eur", "volume",
                                "euro_spent", "order_id">>]
koinly_header == [kind |-> "header",
                  fieldnames |-> <<"Date", "Sent Amount", "Sent Currency",
                                   "Received Amount", "Received Currency", "Fee Amount",
                                   "Fee Currency", "Net Worth Amount",
                                   "Net Worth Currency", "Label", "Description",
                                   "TxHash">>]

\* the price and the amount change places
csv_row_swapped(pair, price, volume, euro_amount, txid) ==
    [kind |-> "row", pair |-> pair, price_eur |-> Fmt2(euro_amount),
     volume |-> Fmt8(volume), euro_spent |-> Fmt2(price), order_id |-> txid]

csv_row(pair, price, volume, euro_amount, txid) ==
    [kind |-> "row", pair |-> pair, price_eur |-> Fmt2(price), volume |-> Fmt8(volume),
     euro_spent |-> Fmt2(euro_amount), order_id |-> txid]

koinly_row(pair, price, volume, euro_amount, txid) ==
    [kind |-> "row", sent_amount |-> euro_amount, sent_currency |-> "EUR",
     received_amount |-> volume,
     received_currency |-> convert_kraken_pair_to_symbol(pair),
     fee_amount |-> 0, net_worth_amount |-> euro_amount, label |-> "Buy",
     description |-> pair, txhash |-> txid]

\* the header is written on every call
appended_every_time(file, header, row) == file \o <<header, row>>

\* a file opened in append mode: the header first if it is absent or empty
appended(file, header, row) ==
    LET file_exists == Len(file) > 0
    IN  file \o (IF ~file_exists THEN <<header>> ELSE <<>>) \o <<row>>

\* a failing open/write is swallowed inside log_trade
log_trade_silent(csv, koinly, pair, price, volume, euro_amount, txid, io) ==
    [csv |-> csv, koinly |-> koinly, raised |-> FALSE]

\* io: "ok", or the file whose open/write raises
LedgerResults == {"ok", "csv_fail", "koinly_fail"}
log_trade(csv, koinly, pair, price, volume, euro_amount, txid, io) ==
    IF io = "csv_fail" THEN [csv |-> csv, koinly |-> koinly, raised |-> TRUE]
    ELSE LET csv2 == appended(csv, csv_header,
                              csv_row(pair, price, volume, euro_amount, txid))
         IN  IF io = "koinly_fail"
             THEN [csv |-> csv2, koinly |-> koinly, raised |-> TRUE]
             ELSE [csv |-> csv2,
                   koinly |-> appended(koinly, koinly_header,
                                       koinly_row(pair, price, volume, euro_amount, txid)),
                   raised |-> FALSE]

(* ------------------------- NotificationManager ------------------------- *)
\* what requests.post does for Telegram / what the SMTP session does
TelegramResults == {"sent", "non200", "exception"}
EmailResults == {"sent", "exception"}

\* attempt: what happened on the wire ("none": nothing was sent);
\* raised: an exception leaves the method
\* send_telegram without its try/except
send_telegram_uncaught(message, r) ==
    IF ~(telegram_token /\ telegram_chat_id)
    THEN [attempt |-> "none", raised |-> FALSE]
    ELSE [attempt |-> r, raised |-> r = "exception"]

send_telegram(message, r) ==
    IF ~(telegram_token /\ telegram_chat_id)
    THEN [attempt |-> "none", raised |-> FALSE]
    ELSE [attempt |-> r, raised |-> FALSE]       \* except Exception: print

send_email(subject, body, r) ==
    IF email_cfg # EmailFields
    THEN [attempt |-> "none", raised |-> FALSE]
    ELSE [attempt |-> r, raised |-> FALSE]       \* except Exception: print

\* r = [telegram, email]: the answers of the two channels, were they asked
notify(message, r) ==
    LET t == send_telegram(message, r.telegram)
    IN  IF t.raised
        THEN [message |-> message, telegram |-> t.attempt, email |-> "none",
              raised |-> TRUE]
        ELSE LET e == send_email("Kraken DCA Bot Notification", message, r.email)
             IN  [message |-> message, telegram |-> t.attempt, email |-> e.attempt,
                  raised |-> e.raised]

\* the channel answers that can matter under the current configuration
NotifyResults ==
    [telegram : IF telegram_token /\ telegram_chat_id THEN TelegramResults ELSE {"sent"},
     email : IF email_cfg = EmailFields THEN EmailResults ELSE {"sent"}]

\* the text of a notification: its kind and the values it prints
Message(kind, pair, amount, price, volume, txid, balance) ==
    [kind |-> kind, pair |-> pair, amount |-> amount, price |-> price,
     volume |-> volume, txid |-> txid, balance |-> balance]

(* ------------------------------ KrakenAPI ------------------------------ *)
\* data['nonce'] = str(int(time.time()*1000)), as the integer it spells;
\* now is what the wall clock reads at the call
request_nonce(now) == now

\* urllib.parse.urlencode(data): the key=value items in the order of the dict
urlencode(data) == [i \in 1..Len(data) |-> [key |-> data[i][1], value |-> data[i][2]]]

\* data[key], for a key the dict holds
Lookup(data, key) == data[CHOOSE i \in 1..Len(data) : data[i][1] = key][2]

\* the API-Sign token: the HMAC-SHA512, under the secret, of the path and the
\* SHA-256 of nonce + postdata, kept as the values that go into it
get_signature(urlpath, data) ==
    [urlpath |-> urlpath, nonce |-> Lookup(data, "nonce"), postdata |-> urlencode(data),
     key |-> "api_secret"]

\* the body is sent with the nonce in front, the signature made with it behind
request_reordered(path, data, now) ==
    LET with_nonce == Append(data, <<"nonce", request_nonce(now)>>)
        urlpath == <<"/0/private/", path>>
    IN  [path |-> urlpath,
         nonce |-> request_nonce(now),
         headers |-> [API_Key |-> "api_key",
                      API_Sign |-> get_signature(urlpath, with_nonce)],
         body |-> urlencode(<<<<"nonce", request_nonce(now)>>>> \o data)]

\* KrakenAPI.request up to and with requests.post: the request as it leaves;
\* data is the dict as the sequence of its items
request(path, data, now) ==
    LET with_nonce == Append(data, <<"nonce", request_nonce(now)>>)
        urlpath == <<"/0/private/", path>>
    IN  [path |-> urlpath,
         nonce |-> request_nonce(now),
         headers |-> [API_Key |-> "api_key",
                      API_Sign |-> get_signature(urlpath, with_nonce)],
         body |-> urlencode(with_nonce)]

\* the data dict of place_market_buy_order
order_data(pair, volume) ==
    <<<<"ordertype", "market">>, <<"type", "buy">>, <<"volume", Fmt8(volume)>>,
      <<"pair", pair>>>>

\* the nonces of the latest two private calls
Latest2(s) == IF Len(s) > 2 THEN SubSeq(s, Len(s) - 1, Len(s)) ELSE s

\* answers of the Balance endpoint: the error list is non-empty or not,
\* result carries 'ZEUR' or not
BalanceResponses ==
    [error : BOOLEAN, has_zeur : BOOLEAN, zeur : Balances]

\* the Ticker call: it fails (API error list, transport or parse failure),
\* answers a price of 0, or answers the market's price
PriceResults == {"fail", "zero", "quote"}
get_current_price(pair, p) ==
    IF p = "fail" THEN [raised |-> TRUE, price |-> 0]
    ELSE [raised |-> FALSE, price |-> IF p = "zero" THEN 0 ELSE MarketPrice(pair)]

\* the AddOrder request: it raises (transport or parse failure, an answer
\* without 'error'), or returns the answer, whose error list is empty or not
OrderResults == {"raise", "error", "ok"}
place_market_buy_order_raising(o) ==
    [raised |-> o \in {"raise", "error"}, error |-> FALSE]
place_market_buy_order(o) == [raised |-> o = "raise", error |-> o = "error"]

\* 'txid' of an AddOrder answer: a list with the id, no such key, or an empty list
TxidResults == {"id", "absent", "empty"}

(* ------------------------------- DCABot -------------------------------- *)
\* no funds check at all
InsufficientFunds_Never(euro_amount, balance) == FALSE

\* the funds check with >= for >
InsufficientFunds_AtLeast(euro_amount, balance) == euro_amount >= balance

\* if euro_amount > eur_balance
InsufficientFunds(euro_amount, balance) == euro_amount > balance

\* the error list of the Balance answer is never looked at
BalanceFailed_Ignored(balance_response) == FALSE

\* if balance_response['error']
BalanceFailed(balance_response) == balance_response.error

\* eur_balance = float(account_balance.get('ZEUR', 0))
ParseBalance(balance_response) ==
    IF balance_response.has_zeur THEN balance_response.zeur ELSE 0

NoVolume == [num |-> 0, den |-> 1]

ErrorMessage(pair) == Message("error", pair, 0, 0, NoVolume, "", 0)

\* what one call of _process_coin did and returned: the coin it was given, the
\* private requests it sent and the log_trade calls it made among the rest
Result(coin, state, detail, balance_in, returned, prices, requests, logged, notified, csv, koinly, raised) ==
    [coin |-> coin, state |-> state, detail |-> detail, balance_in |-> balance_in,
     returned |-> returned, price_calls |-> prices, order_calls |-> Len(requests),
     requests |-> requests, logged |-> logged, notified |-> notified, csv |-> csv,
     koinly |-> koinly, raised |-> raised]

\* the insufficient-funds branch
Skipped(coin, balance, csv, koinly, n1) ==
    LET n == notify(Message("insufficient", coin.pair, Fmt2(coin.amount), 0,
                            NoVolume, "", Fmt2(balance)), n1)
    IN  Result(coin, "Skipped", "insufficient", balance, balance, 0, <<>>, <<>>, <<n>>,
               csv, koinly, n.raised)

\* the price failure leaves _process_coin: no try around the price fetch
PriceFailed_Uncaught(coin, balance, csv, koinly, n1) ==
    Result(coin, "Failed", "price", balance, balance, 1, <<>>, <<>>, <<>>, csv, koinly,
           TRUE)

\* get_current_price raises, or the price is 0 and the division raises
PriceFailed(coin, balance, csv, koinly, n1) ==
    LET n == notify(ErrorMessage(coin.pair), n1)
    IN  Result(coin, "Failed", "price", balance, balance, 1, <<>>, <<>>, <<n>>, csv,
               koinly, n.raised)

\* the AddOrder request of a coin at a price
AddOrder(coin, price, now) ==
    request("AddOrder", order_data(coin.pair, [num |-> coin.amount, den |-> price]), now)

\* the AddOrder request is sent again after it raised
OrderRaised_Retried(coin, balance, csv, koinly, now, price, n1) ==
    LET n == notify(ErrorMessage(coin.pair), n1)
    IN  Result(coin, "Failed", "order_raised", balance, balance, 1,
               <<AddOrder(coin, price, now), AddOrder(coin, price, now)>>, <<>>, <<n>>,
               csv, koinly, n.raised)

\* the AddOrder request raises (transport, parse), or its answer has no 'error'
OrderRaised(coin, balance, csv, koinly, now, price, n1) ==
    LET n == notify(ErrorMessage(coin.pair), n1)
    IN  Result(coin, "Failed", "order_raised", balance, balance, 1,
               <<AddOrder(coin, price, now)>>, <<>>, <<n>>, csv, koinly, n.raised)

\* the AddOrder answer carries a non-empty error list: result['error'] is truthy
OrderRejected(coin, balance, csv, koinly, now, price) ==
    Result(coin, "Failed", "order_rejected", balance, balance, 1,
           <<AddOrder(coin, price, now)>>, <<>>, <<>>, csv, koinly, FALSE)

\* eur_balance -= euro_amount
Deduct(balance, euro_amount) == balance - euro_amount

\* the AddOrder answer carries an empty error list; orders is the number of
\* orders the exchange took before
OrderAccepted(coin, balance, csv, koinly, now, price, orders, txid_r, io, n1, n2) ==
    LET pair == coin.pair
        euro_amount == coin.amount
        volume == [num |-> euro_amount, den |-> price]
        left == Deduct(balance, euro_amount)
        txid == IF txid_r = "absent" THEN "Unknown" ELSE Txid(orders + 1)
        sent == <<AddOrder(coin, price, now)>>
        call == <<[pair |-> pair, price |-> price, volume |-> volume,
                   euro_amount |-> euro_amount, txid |-> txid, io |-> io]>>
        failed(detail, logged, notified, csv2) ==
            LET n == notify(ErrorMessage(pair), n2)
            IN  Result(coin, "Purchased", detail, balance, left, 1, sent, logged,
                       Append(notified, n), csv2, koinly, n.raised)
    IN  IF txid_r = "empty" THEN failed("no_txid", <<>>, <<>>, csv)
        ELSE LET ok == notify(Message("success", pair, Fmt2(euro_amount), price,
                                      Fmt8(volume), txid, Fmt2(left)), n1)
                 w == log_trade(csv, koinly, pair, price, volume, euro_amount, txid, io)
             IN  IF ok.raised THEN failed("notify_raised", <<>>, <<ok>>, csv)
                 ELSE IF w.raised THEN failed("ledger_failed", call, <<ok>>, w.csv)
                 ELSE Result(coin, "Purchased", "logged", balance, left, 1, sent, call,
                             <<ok>>, w.csv, w.koinly, FALSE)

\* for coin in coins: self._process_coin(coin, eur_balance) -- what run keeps
\* of the balance the call returns
BalanceAfter(balance, returned) == balance

NoCoin == [pair |-> <<>>, amount |-> 0]
NoResult ==
    Result(NoCoin, "none", "none", 0, 0, 0, <<>>, <<>>, <<>>, <<>>, <<>>, FALSE)
\* no private request sent yet
NoRequest == <<>>
\* run begins with its loop, no balance query before it
Entry_InLoop == "coins"
\* where run begins: with the balance query
Entry == "start"
NoAnswers == [price |-> "none", order |-> "none", txid |-> "none", io |-> "none"]
\* the channel answers of a notify call that is not made
Unasked == [telegram |-> "sent", email |-> "sent"]

InitRun ==
    /\ pc = Entry
    /\ idx = 0
    /\ eur_balance = 0
    /\ fetched = 0
    /\ nonces = <<>>
    /\ balance_calls = 0
    /\ price_calls = 0
    /\ order_calls = 0
    /\ accepted = 0
    /\ csv_file = <<>>
    /\ koinly_file = <<>>
    /\ outcome = <<>>
    /\ last = NoResult
    /\ balance_answer = "none"
    /\ answers = NoAnswers
    /\ wire = NoRequest
    /\ recorded = <<>>
    /\ notify_log = <<>>

Init ==
    /\ coins \in CoinListsUpTo(MaxCoins)
    /\ \E c \in PlainNotifierConfigs :
           /\ telegram_token = c.telegram_token
           /\ telegram_chat_id = c.telegram_chat_id
           /\ email_cfg = c.email_cfg
    /\ InitRun

\* run, up to the loop: the Balance request raises (transport or parse failure)
BalanceRaises ==
    /\ pc = "start"
    /\ \E now \in ClockReadings :
           /\ wire' = request("Balance", <<>>, now)
           /\ nonces' = Latest2(Append(nonces, wire'.nonce))
    /\ balance_calls' = balance_calls + 1
    /\ balance_answer' = "raised"
    /\ pc' = "crashed"
    /\ UNCHANGED <<config, idx, eur_balance, fetched, price_calls, order_calls,
                   accepted, csv_file, koinly_file, outcome, last, answers,
                   recorded, notify_log>>

\* run, up to the loop: the Balance request answers
GetAccountBalance ==
    /\ pc = "start"
    /\ \E now \in ClockReadings, balance_response \in BalanceResponses,
          n1 \in NotifyResults :
           /\ wire' = request("Balance", <<>>, now)
           /\ nonces' = Latest2(Append(nonces, wire'.nonce))
           /\ balance_answer' = IF balance_response.error THEN "error" ELSE "ok"
           /\ IF BalanceFailed(balance_response)
              THEN LET n == notify(Message("balance_error", <<>>, 0, 0, NoVolume,
                                           "", 0), n1)
                   IN  /\ notify_log' = <<n>>
                       /\ pc' = IF n.raised THEN "crashed" ELSE "aborted"
                       /\ UNCHANGED <<eur_balance, fetched>>
              ELSE /\ eur_balance' = ParseBalance(balance_response)
                   /\ fetched' = ParseBalance(balance_response)
                   /\ pc' = "coins"
                   /\ UNCHANGED notify_log
    /\ balance_calls' = balance_calls + 1
    /\ UNCHANGED <<config, idx, price_calls, order_calls, accepted, csv_file,
                   koinly_file, outcome, last, answers, recorded>>

\* one iteration of the loop of run, given what _process_coin did (r) on the
\* exchange's answers (a)
Iterate(r, a) ==
    /\ answers' = a
    /\ eur_balance' = BalanceAfter(eur_balance, r.returned)
    /\ idx' = idx + 1
    /\ outcome' = Append(outcome, r.state)
    /\ last' = r
    /\ notify_log' = r.notified
    /\ nonces' = Latest2(nonces \o [k \in 1..Len(r.requests) |-> r.requests[k].nonce])
    /\ wire' = IF r.requests = <<>> THEN wire ELSE r.requests[Len(r.requests)]
    /\ recorded' = recorded \o r.logged
    /\ price_calls' = price_calls + r.price_calls
    /\ order_calls' = order_calls + r.order_calls
    /\ accepted' = accepted + (IF a.order = "ok" THEN 1 ELSE 0)
    /\ csv_file' = r.csv
    /\ koinly_file' = r.koinly
    /\ pc' = IF r.raised THEN "crashed" ELSE pc
    /\ UNCHANGED <<config, fetched, balance_calls, balance_answer>>

\* the coin the loop is at, and whether _process_coin gets past its funds check
InLoop == pc = "coins" /\ idx < Len(coins)
\* the list is walked from its end
coin_backwards == coins[Len(coins) - idx]

coin == coins[idx + 1]
Funded == InLoop /\ ~InsufficientFunds(coin.amount, eur_balance)
\* the ticker answer lets _process_coin reach the order
Priced(p) ==
    /\ ~get_current_price(coin.pair, p).raised
    /\ get_current_price(coin.pair, p).price # 0
\* the order answer lets _process_coin reach the success branch
Accepted(o) ==
    /\ ~place_market_buy_order(o).raised
    /\ ~place_market_buy_order(o).error

CoinSkipped ==
    /\ InLoop
    /\ InsufficientFunds(coin.amount, eur_balance)
    /\ \E n1 \in NotifyResults :
           Iterate(Skipped(coin, eur_balance, csv_file, koinly_file, n1), NoAnswers)

CoinPriceFailed ==
    /\ Funded
    /\ \E p \in PriceResults, n1 \in NotifyResults :
           /\ ~Priced(p)
           /\ Iterate(PriceFailed(coin, eur_balance, csv_file, koinly_file, n1),
                      [NoAnswers EXCEPT !.price = p])

CoinOrderRaised ==
    /\ Funded
    /\ \E p \in PriceResults, o \in OrderResults, now \in ClockReadings,
          n1 \in NotifyResults :
           /\ Priced(p)
           /\ place_market_buy_order(o).raised
           /\ Iterate(OrderRaised(coin, eur_balance, csv_file, koinly_file, now,
                                  get_current_price(coin.pair, p).price, n1),
                      [NoAnswers EXCEPT !.price = p, !.order = o])

CoinOrderRejected ==
    /\ Funded
    /\ \E p \in PriceResults, o \in OrderResults, now \in ClockReadings :
           /\ Priced(p)
           /\ ~place_market_buy_order(o).raised
           /\ place_market_buy_order(o).error
           /\ Iterate(OrderRejected(coin, eur_balance, csv_file, koinly_file, now,
                                    get_current_price(coin.pair, p).price),
                      [NoAnswers EXCEPT !.price = p, !.order = o])

\* the order is taken and both ledger files are written
CoinPurchased ==
    /\ Funded
    /\ \E p \in PriceResults, o \in OrderResults, now \in ClockReadings,
          txid_r \in {"id", "absent"}, n1 \in NotifyResults :
           /\ Priced(p)
           /\ Accepted(o)
           /\ Iterate(OrderAccepted(coin, eur_balance, csv_file, koinly_file, now,
                                    get_current_price(coin.pair, p).price, accepted,
                                    txid_r, "ok", n1, Unasked),
                      [price |-> p, order |-> o, txid |-> txid_r, io |-> "ok"])

\* the order is taken and a ledger write raises
CoinLedgerFailed ==
    /\ Funded
    /\ \E p \in PriceResults, o \in OrderResults, now \in ClockReadings,
          txid_r \in {"id", "absent"}, io \in LedgerResults \ {"ok"},
          n1 \in NotifyResults, n2 \in NotifyResults :
           /\ Priced(p)
           /\ Accepted(o)
           /\ Iterate(OrderAccepted(coin, eur_balance, csv_file, koinly_file, now,
                                    get_current_price(coin.pair, p).price, accepted,
                                    txid_r, io, n1, n2),
                      [price |-> p, order |-> o, txid |-> txid_r, io |-> io])

\* the order is taken and its answer lists no transaction id
CoinNoTxid ==
    /\ Funded
    /\ \E p \in PriceResults, o \in OrderResults, now \in ClockReadings,
          n2 \in NotifyResults :
           /\ Priced(p)
           /\ Accepted(o)
           /\ Iterate(OrderAccepted(coin, eur_balance, csv_file, koinly_file, now,
                                    get_current_price(coin.pair, p).price, accepted,
                                    "empty", "ok", Unasked, n2),
                      [price |-> p, order |-> o, txid |-> "empty", io |-> "none"])

\* the loop of run is over: ALL TRANSACTIONS COMPLETE
Complete ==
    /\ pc = "coins" /\ idx = Len(coins)
    /\ pc' = "done"
    /\ UNCHANGED <<config, idx, eur_balance, fetched, nonces, balance_calls,
                   price_calls, order_calls, accepted, csv_file, koinly_file, outcome,
                   last, balance_answer, answers, wire, recorded, notify_log>>

Next ==
    \/ BalanceRaises
    \/ GetAccountBalance
    \/ CoinSkipped
    \/ CoinPriceFailed
    \/ CoinOrderRaised
    \/ CoinOrderRejected
    \/ CoinPurchased
    \/ CoinLedgerFailed
    \/ CoinNoTxid
    \/ Complete

Spec == Init /\ [][Next]_vars

\* run is one sequential pass whose every call returns: a step that can be
\* taken is taken
SpecFair == Spec /\ WF_vars(Next)

\* the same run under every notification configuration, with at most one coin
InitNotifier ==
    /\ coins \in CoinListsUpTo(1)
    /\ \E c \in AllNotifierConfigs :
           /\ telegram_token = c.telegram_token
           /\ telegram_chat_id = c.telegram_chat_id
           /\ email_cfg = c.email_cfg
    /\ InitRun

SpecNotifier == InitNotifier /\ [][Next]_vars

\* the trades handed to log_trade
TradeRecords ==
    {[pair |-> pair, price |-> MarketPrice(pair),
      volume |-> [num |-> a, den |-> MarketPrice(pair)], euro_amount |-> a,
      txid |-> Txid(1)] : pair \in {XXBTZEUR, ADAEUR}, a \in Amounts}

\* a TradeLogger on two absent files, outside any run
InitLedger ==
    /\ coins = <<>>
    /\ telegram_token = FALSE /\ telegram_chat_id = FALSE /\ email_cfg = {}
    /\ pc = "ledger"
    /\ idx = 0 /\ eur_balance = 0 /\ fetched = 0 /\ nonces = <<>>
    /\ balance_calls = 0 /\ price_calls = 0 /\ order_calls = 0 /\ accepted = 0
    /\ csv_file = <<>> /\ koinly_file = <<>>
    /\ outcome = <<>> /\ last = NoResult
    /\ balance_answer = "none" /\ answers = NoAnswers
    /\ wire = NoRequest /\ recorded = <<>> /\ notify_log = <<>>

\* one call of TradeLogger.log_trade
LogTrade ==
    /\ pc = "ledger"
    /\ Len(recorded) < MaxRecords
    /\ \E t \in TradeRecords, io \in LedgerResults :
           LET w == log_trade(csv_file, koinly_file, t.pair, t.price, t.volume,
                              t.euro_amount, t.txid, io)
           IN  /\ csv_file' = w.csv
               /\ koinly_file' = w.koinly
               /\ recorded' = Append(recorded, [pair |-> t.pair, price |-> t.price,
                                                volume |-> t.volume,
                                                euro_amount |-> t.euro_amount,
                                                txid |-> t.txid, io |-> io])
    /\ UNCHANGED <<config, pc, idx, eur_balance, fetched, nonces, balance_calls,
                   price_calls, order_calls, accepted, outcome, last, balance_answer,
                   answers, wire, notify_log>>

NextLedger == LogTrade

SpecLedger == InitLedger /\ [][NextLedger]_vars

(* ------------------------------- claims -------------------------------- *)
RECURSIVE Spent(_)
\* the fiat amounts of the purchased coins among the first k processed
Spent(k) ==
    IF k = 0 THEN 0
    ELSE Spent(k - 1) + (IF outcome[k] = "Purchased" THEN coins[k].amount ELSE 0)

DataRows(file) == Len(SelectSeq(file, LAMBDA row : row.kind = "row"))

\* C1: at the end of run the amounts of the purchased coins sum to at most
\* the fetched balance, and to the fetched balance minus the final local balance.
C1_SpentWithinBalance ==
    pc = "done" =>
        /\ Spent(idx) <= fetched
        /\ Spent(idx) = fetched - eur_balance

\* C2: the funds check of each coin sees the fetched balance minus the amounts
\* of the coins purchased before it; with balance 100 and coins [60, 60] whose
\* price and order calls succeed, the second coin is skipped and 40 is left.
C2_CumulativeDeductions ==
    /\ idx >= 1 => last.balance_in = fetched - Spent(idx - 1)
    /\ ( /\ fetched = 100000
         /\ idx = 2
         /\ coins[1].amount = 60000 /\ coins[2].amount = 60000
         /\ outcome[1] = "Purchased" )
       => /\ outcome[2] = "Skipped"
          /\ price_calls = 1 /\ order_calls = 1
          /\ eur_balance = 40000

\* C3: a Balance answer with a non-empty error list ends the run after one
\* notification, with no price fetch, no order and no ledger row.
C3_BalanceErrorIsFatal ==
    balance_answer = "error" =>
        /\ pc = "aborted"
        /\ idx = 0
        /\ price_calls = 0 /\ order_calls = 0
        /\ csv_file = <<>> /\ koinly_file = <<>>
        /\ Len(notify_log) = 1
        /\ notify_log[1].message.kind = "balance_error"

C3_Witness ==
    /\ balance_answer = "error" /\ pc = "aborted"
    /\ Len(coins) = 2

\* a step of the loop of run: one more coin is processed
CoinStep == idx' = idx + 1
LastRow(file) == file[Len(file)]

\* C4: a failed price fetch places no order, writes no ledger row, leaves the
\* balance alone and lets the loop go on from the state it found; with coins
\* [A: price fetch fails, B purchased] the ledger holds one record, for B.
C4_PriceFailureIsolated ==
    /\ [][(CoinStep /\ answers'.price = "fail") =>
              /\ last'.state = "Failed"
              /\ last'.order_calls = 0 /\ order_calls' = order_calls
              /\ accepted' = accepted
              /\ csv_file' = csv_file /\ koinly_file' = koinly_file
              /\ last'.returned = eur_balance /\ eur_balance' = eur_balance
              /\ nonces' = nonces
              /\ pc' = "coins"]_vars
    /\ []((idx = 2 /\ outcome = <<"Failed", "Purchased">> /\ last.detail = "logged") =>
              /\ DataRows(csv_file) = 1 /\ DataRows(koinly_file) = 1
              /\ LastRow(csv_file).pair = coins[2].pair
              /\ LastRow(koinly_file).description = coins[2].pair)

\* the example of C4: A's price fetch failed, B: 50 at price 10 is purchased
C4_Witness ==
    /\ idx = 2 /\ fetched = 100000 /\ coins[2].amount = 50000
    /\ outcome = <<"Failed", "Purchased">>
    /\ price_calls = 2 /\ order_calls = 1
    /\ last.detail = "logged"
    /\ LastRow(csv_file).price_eur = 1000
    /\ LastRow(csv_file).volume = 500000000

\* C5: an AddOrder answer with a non-empty error list is returned, not raised;
\* the coin is Failed, the balance and the ledger are as before and the loop
\* goes on.
C5_OrderErrorIsAValue ==
    [][(CoinStep /\ answers'.order = "error") =>
           /\ last'.detail = "order_rejected"
           /\ ~last'.raised
           /\ last'.state = "Failed"
           /\ order_calls' = order_calls + 1
           /\ accepted' = accepted
           /\ last'.returned = eur_balance /\ eur_balance' = eur_balance
           /\ csv_file' = csv_file /\ koinly_file' = koinly_file
           /\ pc' = "coins"]_vars

C5_Witness ==
    /\ answers.order = "error" /\ last.detail = "order_rejected"
    /\ idx = 1 /\ Len(coins) = 2 /\ pc = "coins"

\* C6: every failure is notified: a failed balance fetch (error list or
\* exception) and every coin that is not purchased (skipped, price failure,
\* order rejected) is followed by at least one notify call.
C6_EveryFailureNotified ==
    /\ balance_answer \in {"error", "raised"} => Len(notify_log) >= 1
    /\ (idx >= 1 /\ last.state # "Purchased") => Len(last.notified) >= 1

\* C7: a coin whose amount is strictly greater than the local balance is
\* skipped: no price fetch, no order, one warning, no ledger row, the balance
\* unchanged, the loop goes on; a coin whose amount equals the balance is not
\* skipped.
C7_SkipOnInsufficientFunds ==
    /\ [][(CoinStep /\ coin.amount > eur_balance) =>
              /\ last'.state = "Skipped"
              /\ outcome' = Append(outcome, "Skipped")
              /\ price_calls' = price_calls /\ order_calls' = order_calls
              /\ Len(notify_log') = 1
              /\ notify_log'[1].message.kind = "insufficient"
              /\ csv_file' = csv_file /\ koinly_file' = koinly_file
              /\ last'.returned = eur_balance /\ eur_balance' = eur_balance
              /\ pc' = "coins"]_vars
    /\ [][(CoinStep /\ coin.amount <= eur_balance) =>
              /\ last'.state # "Skipped"
              /\ price_calls' = price_calls + 1]_vars

\* a coin equal to the balance is purchased, a larger one is skipped
C7_Witness ==
    /\ idx = 2 /\ fetched = 50000
    /\ coins[1].amount = 50000 /\ coins[2].amount = 60000
    /\ outcome = <<"Purchased", "Skipped">>

C9_NoncesIncrease ==
    Len(nonces) = 2 => nonces[2] > nonces[1]

\* C10: notify never raises and attempts every fully configured channel,
\* whatever the other channel did; a channel with a missing setting is not
\* attempted.
C10_NotifyBestEffort ==
    \A k \in 1..Len(notify_log) :
        LET n == notify_log[k]
        IN  /\ ~n.raised
            /\ (telegram_token /\ telegram_chat_id) => n.telegram \in TelegramResults
            /\ ~(telegram_token /\ telegram_chat_id) => n.telegram = "none"
            /\ email_cfg = EmailFields => n.email \in EmailResults
            /\ email_cfg # EmailFields => n.email = "none"

\* the chat channel raised and the e-mail was still sent
C10_Witness ==
    /\ Len(notify_log) >= 1
    /\ notify_log[1].telegram = "exception"
    /\ notify_log[1].email = "sent"

IsPrefix(s, t) == Len(s) <= Len(t) /\ SubSeq(t, 1, Len(s)) = s
\* a file that got the rows of the calls in written: one header, then the rows
FileOf(header, written, row(_)) ==
    IF written = <<>> THEN <<>>
    ELSE <<header>> \o [k \in 1..Len(written) |-> row(written[k])]

\* C11: the ledger only grows and has one header: from absent files, each file
\* holds exactly one header and then one row per log_trade call that wrote to
\* it, in call order, identical records included; a call never removes or
\* rewrites what a file holds.
C11_LedgerAppendOnly ==
    /\ [](LET csv_written == SelectSeq(recorded, LAMBDA c : c.io # "csv_fail")
              koinly_written == SelectSeq(recorded, LAMBDA c : c.io = "ok")
              csv_of(c) == csv_row(c.pair, c.price, c.volume, c.euro_amount, c.txid)
              koinly_of(c) == koinly_row(c.pair, c.price, c.volume, c.euro_amount,
                                         c.txid)
          IN  /\ csv_file = FileOf(csv_header, csv_written, csv_of)
              /\ koinly_file = FileOf(koinly_header, koinly_written, koinly_of)
              /\ (\A k \in 1..Len(recorded) : recorded[k].io = "ok")
                     => /\ DataRows(csv_file) = Len(recorded)
                        /\ DataRows(koinly_file) = Len(recorded))
    /\ [][IsPrefix(csv_file, csv_file') /\ IsPrefix(koinly_file, koinly_file')]_vars

\* two identical records, both written: two rows under one header
C11_Witness ==
    /\ Len(recorded) = 2
    /\ recorded[1] = recorded[2]
    /\ recorded[1].io = "ok"
    /\ Len(csv_file) = 3 /\ csv_file[2] = csv_file[3]
    /\ Len(koinly_file) = 3 /\ koinly_file[2] = koinly_file[3]

\* C12: the symbol written to the Koinly file for the pair XXBTZEUR is BTC and
\* for the pair ADAEUR is ADA.
C12_SymbolNormalized ==
    \A k \in 1..Len(koinly_file) :
        koinly_file[k].kind = "row" =>
            /\ koinly_file[k].description = XXBTZEUR
                   => koinly_file[k].received_currency = <<"B", "T", "C">>
            /\ koinly_file[k].description = ADAEUR
                   => koinly_file[k].received_currency = <<"A", "D", "A">>

\* C13: a ledger write that fails on either file is followed by an error
\* notification and leaves the run in its loop: the coin counts as processed,
\* the remaining coins are processed and the run reaches its completion.
C13_LedgerFailureSurfaced ==
    /\ [][(CoinStep /\ answers'.io \in {"csv_fail", "koinly_fail"}) =>
              /\ last'.detail = "ledger_failed"
              /\ Len(notify_log') >= 1
              /\ notify_log'[Len(notify_log')].message = ErrorMessage(last'.coin.pair)
              /\ ~last'.raised
              /\ pc' = "coins"]_vars
    /\ (answers.io \in {"csv_fail", "koinly_fail"})
           ~> (pc = "done" /\ idx = Len(coins) /\ Len(outcome) = Len(coins))

\* the first coin's Koinly write fails, the second coin is processed after it
C13_Witness ==
    /\ Len(coins) = 2 /\ idx = 2 /\ pc = "done"
    /\ outcome[1] = "Purchased"
    /\ Len(recorded) >= 1 /\ recorded[1].io = "koinly_fail"
    /\ outcome[2] = "Purchased" /\ last.detail = "logged"

\* C14: from a fetched balance that is not negative, the local balance is never
\* negative, in run and in _process_coin; a coin whose amount exceeds the
\* balance it is checked against is skipped whole: no price fetch, no order,
\* nothing deducted.
C14_BalanceNeverNegative ==
    fetched >= 0 =>
        /\ eur_balance >= 0
        /\ last.balance_in >= 0 /\ last.returned >= 0
        /\ (idx >= 1 /\ last.coin.amount > last.balance_in) =>
               /\ last.state = "Skipped"
               /\ last.price_calls = 0 /\ last.order_calls = 0
               /\ last.returned = last.balance_in

\* a purchase that uses the balance up to zero, and a coin skipped for its amount
C14_Witness ==
    /\ idx = 2 /\ fetched = 50000
    /\ outcome = <<"Purchased", "Skipped">>
    /\ coins[1].amount = 50000
    /\ last.coin.amount > last.balance_in

\* run has returned or has been left by an exception
Terminated == pc \in {"done", "aborted", "crashed"}

\* C15: every run ends. It ends without a coin processed only after the
\* Balance request failed; otherwise the coins are processed one at a time in
\* the order of the configuration, each once and each as Skipped, Purchased or
\* Failed, and then completion is signalled, whatever fails on the way.
C15_RunTerminates ==
    /\ <>Terminated
    /\ (balance_answer = "ok") ~> (pc = "done")
    /\ [](pc \in {"aborted", "crashed"} =>
              /\ balance_answer \in {"error", "raised"}
              /\ idx = 0 /\ price_calls = 0 /\ order_calls = 0)
    /\ [](pc = "done" =>
              /\ balance_answer = "ok"
              /\ idx = Len(coins) /\ Len(outcome) = Len(coins)
              /\ \A k \in 1..Len(coins) : outcome[k] \in {"Skipped", "Purchased", "Failed"})
    /\ [](idx >= 1 => last.coin = coins[idx])
    /\ [][/\ idx' \in {idx, idx + 1}
          /\ Terminated => UNCHANGED vars]_vars

\* a completed run of two coins in which a price fetch and a ledger write failed
C15_Witness ==
    /\ pc = "done" /\ Len(coins) = 2
    /\ outcome = <<"Failed", "Purchased">>
    /\ last.detail = "ledger_failed"
    /\ last.coin = coins[2]

\* the keys of a form body, in the order they are sent
Keys(body) == [k \in 1..Len(body) |-> body[k].key]

\* C16: every private request is sent with the body its signature was made
\* from: the same items in the same order, the nonce of this call among them,
\* added before the signature was made; and it carries the API-Key and API-Sign
\* headers.
C16_SignedBodyIsSentBody ==
    wire # NoRequest =>
        /\ wire.headers.API_Sign.postdata = wire.body
        /\ wire.headers.API_Sign.urlpath = wire.path
        /\ wire.headers.API_Sign.nonce = wire.nonce
        /\ wire.body[Len(wire.body)] = [key |-> "nonce", value |-> wire.nonce]
        /\ wire.nonce = nonces[Len(nonces)]
        /\ Keys(wire.body) \in {<<"nonce">>,
                                <<"ordertype", "type", "volume", "pair", "nonce">>}
        /\ DOMAIN wire.headers = {"API_Key", "API_Sign"}
        /\ wire.headers.API_Key = "api_key"

\* an AddOrder request has been sent
C16_Witness ==
    /\ wire # NoRequest
    /\ wire.path = <<"/0/private/", "AddOrder">>
    /\ Len(wire.body) = 5
    /\ order_calls = 1

\* the paths of a sequence of private requests
Paths(requests) == {requests[k].path[2] : k \in 1..Len(requests)}

\* C18: a run sends at most one Balance request and has sent exactly one, with
\* an answer, before any Ticker or AddOrder request; an iteration of the loop
\* sends none and checks the funds against run's local eur_balance.
C18_BalanceQueriedOnce ==
    /\ [](balance_calls <= 1)
    /\ []((price_calls > 0 \/ order_calls > 0 \/ idx > 0 \/ pc = "done") =>
              balance_calls = 1 /\ balance_answer = "ok")
    /\ [][CoinStep =>
              /\ balance_calls' = balance_calls
              /\ "Balance" \notin Paths(last'.requests)
              /\ last'.balance_in = eur_balance
              /\ (last'.state = "Skipped") = (last'.coin.amount > eur_balance)]_vars

\* a finished run of two coins, both priced and ordered, on one Balance request
C18_Witness ==
    /\ pc = "done" /\ idx = 2
    /\ balance_calls = 1 /\ price_calls = 2 /\ order_calls = 2

\* C19: an iteration sends at most one AddOrder request, and sends it only
\* when the coin's amount was within the balance and the Ticker request of the
\* same iteration gave a price; the AddOrder requests of a run never outnumber
\* the coins processed, nor the coins configured.
C19_OneOrderPerCoin ==
    /\ [][CoinStep =>
              /\ order_calls' - order_calls = last'.order_calls
              /\ last'.order_calls <= 1
              /\ last'.order_calls = 1 =>
                     /\ last'.coin.amount <= eur_balance
                     /\ last'.price_calls = 1 /\ price_calls' = price_calls + 1
                     /\ answers'.price = "quote"
                     /\ wire'.path = <<"/0/private/", "AddOrder">>
                     /\ wire'.body[4] = [key |-> "pair", value |-> last'.coin.pair]]_vars
    /\ [](order_calls <= idx /\ idx <= Len(coins))

\* the first coin is skipped, the second coin's one order raises and is not
\* sent again
C19_Witness ==
    /\ idx = 2 /\ outcome = <<"Skipped", "Failed">>
    /\ answers.order = "raise"
    /\ last.order_calls = 1 /\ order_calls = 1

\* C20: ledger rows and success notifications stand for acknowledged orders
\* only: each file holds at most as many rows as orders were acknowledged, and
\* an iteration that sent a success notification has written the coin's row
\* to both files.
C20_SuccessMeansRecorded ==
    /\ DataRows(csv_file) <= accepted
    /\ DataRows(koinly_file) <= accepted
    /\ \A k \in 1..Len(notify_log) :
           notify_log[k].message.kind = "success" =>
               /\ answers.order = "ok"
               /\ last.detail = "logged"
               /\ LastRow(csv_file).pair = last.coin.pair
               /\ LastRow(koinly_file).description = last.coin.pair
               /\ DataRows(csv_file) = DataRows(last.csv)
               /\ Len(last.logged) = 1 /\ last.logged[1].io = "ok"

====
